---- MODULE Spec2Model ----
(***************************************************************************)
(* Sales analytics pipeline: parse -> validate/filter -> analytics ->      *)
(* enrich -> report (src/main.py, src/utils/*.py).                         *)
(*                                                                         *)
(* Strings are sequences of one-character strings, so that split, replace, *)
(* startswith, int() and float() are computed character by character.      *)
(* Decimal values (UnitPrice, revenues, rates) are exact fixed-point       *)
(* numbers counted in hundredths; percentages are counted in hundredths of *)
(* a percent.                                                              *)
(***************************************************************************)
EXTENDS Integers, Sequences, FiniteSets, TLC

VARIABLES
    pc,               \* position in main() / in the function under study
    file_exists,      \* os.path.exists(filename)
    raw_lines,        \* lines returned by read_sales_data
    all_transactions, \* parse_transactions(raw_lines)
    region,           \* validate_and_filter's region argument (target_region)
    min_amount,       \* validate_and_filter's min_amount argument
    max_amount,       \* validate_and_filter's max_amount argument
    valid_txns,       \* the list handed to the analytics / enrichment stage
    summary,          \* validate_and_filter's summary record
    rates,            \* main()'s rates: the table fetched at line 61
    provider,         \* the outcomes of the provider calls made so far
    inr_rate,         \* the rate used by enrich_transaction_data
    n,                \* top_selling_products' n argument
    result,           \* return value (or exception) of the function under study
    orig,             \* the input list as it was before in-place enrichment
    calls,            \* number of times the function under study has run
    report            \* what generate_sales_report has written

vars == <<pc, file_exists, raw_lines, all_transactions, region, min_amount,
          max_amount, valid_txns, summary, rates, provider, inr_rate, n,
          result, orig, calls, report>>

(***************************************************************************)
(* Bounds of the model.                                                    *)
(***************************************************************************)
MaxLines == 2
MaxTxns == 3
MaxN == 3
MaxCalls == 2

(***************************************************************************)
(* Character strings.                                                      *)
(***************************************************************************)
Digits == <<"0", "1", "2", "3", "4", "5", "6", "7", "8", "9">>

IsDigit(c) == \E i \in 1..10 : Digits[i] = c

DigitVal(c) == (CHOOSE i \in 1..10 : Digits[i] = c) - 1

North == <<"N", "o", "r", "t", "h">>
South == <<"S", "o", "u", "t", "h">>
East == <<"E", "a", "s", "t">>
West == <<"W", "e", "s", "t">>
Central == <<"C", "e", "n", "t", "r", "a", "l">>

RECURSIVE Join(_, _)
Join(fields, sep) ==
    IF Len(fields) = 0 THEN <<>>
    ELSE IF Len(fields) = 1 THEN fields[1]
    ELSE fields[1] \o <<sep>> \o Join(Tail(fields), sep)

\* str.split(sep): the fields between the separators, the empty string gives
\* one empty field
RECURSIVE Split(_, _)
Split(s, sep) ==
    IF \A i \in 1..Len(s) : s[i] # sep THEN <<s>>
    ELSE LET k == CHOOSE i \in 1..Len(s) :
                      s[i] = sep /\ \A j \in 1..(i - 1) : s[j] # sep
         IN  <<SubSeq(s, 1, k - 1)>> \o Split(SubSeq(s, k + 1, Len(s)), sep)

\* str.replace(old, new) for a one-character old; new is a string
RECURSIVE Replace(_, _, _)
Replace(s, old, new) ==
    IF Len(s) = 0 THEN <<>>
    ELSE (IF Head(s) = old THEN new ELSE <<Head(s)>>) \o Replace(Tail(s), old, new)

\* str.strip() as int() and float() apply it to their argument
RECURSIVE StripLeft(_)
StripLeft(s) ==
    IF Len(s) > 0 /\ Head(s) = " " THEN StripLeft(Tail(s)) ELSE s

RECURSIVE StripRight(_)
StripRight(s) ==
    IF Len(s) > 0 /\ s[Len(s)] = " " THEN StripRight(SubSeq(s, 1, Len(s) - 1)) ELSE s

Strip(s) == StripRight(StripLeft(s))

StartsWith(s, c) == Len(s) > 0 /\ s[1] = c

Unsigned(s) ==
    IF Len(s) > 0 /\ (s[1] = "-" \/ s[1] = "+") THEN Tail(s) ELSE s

Sign(s) == IF Len(s) > 0 /\ s[1] = "-" THEN -1 ELSE 1

RECURSIVE DigitsVal(_)
DigitsVal(s) ==
    IF Len(s) = 0 THEN 0
    ELSE 10 * DigitsVal(SubSeq(s, 1, Len(s) - 1)) + DigitVal(s[Len(s)])

AllDigits(s) == \A i \in 1..Len(s) : IsDigit(s[i])

\* int(s) succeeds (no ValueError): optional blanks, an optional sign, one or
\* more decimal digits
IntOk(s) ==
    LET u == Unsigned(Strip(s)) IN Len(u) > 0 /\ AllDigits(u)

IntVal(s) == Sign(Strip(s)) * DigitsVal(Unsigned(Strip(s)))

\* float(s) succeeds: optional blanks, an optional sign, digits with at most
\* one decimal point and at least one digit
FloatOk(s) ==
    LET u == Unsigned(Strip(s))
        parts == Split(u, ".")
    IN  /\ Len(parts) <= 2
        /\ \A i \in 1..Len(parts) : AllDigits(parts[i])
        /\ \E i \in 1..Len(parts) : Len(parts[i]) > 0

\* float(s) in hundredths (the inputs of the model carry at most two
\* fraction digits, so the value is exact)
FloatVal(s) ==
    LET u == Unsigned(Strip(s))
        parts == Split(u, ".")
        frac == IF Len(parts) = 2 THEN SubSeq(parts[2] \o <<"0", "0">>, 1, 2)
                ELSE <<"0", "0">>
    IN  Sign(Strip(s)) * (100 * DigitsVal(parts[1]) + DigitsVal(frac))

(***************************************************************************)
(* Record Parser: src/utils/file_handler.py                                *)
(***************************************************************************)
FieldCount == 8

\* the body of the try block: the record built from the eight parts
ParseRecord(parts) ==
    LET qty_str == Replace(parts[5], ",", <<>>)
        price_str == Replace(parts[6], ",", <<>>)
    IN  [TransactionID |-> parts[1],
         Date |-> parts[2],
         ProductID |-> parts[3],
         ProductName |-> Replace(parts[4], ",", <<" ">>),
         Quantity |-> IntVal(qty_str),
         UnitPrice |-> FloatVal(price_str),
         CustomerID |-> parts[7],
         Region |-> parts[8]]

\* int(qty_str) or float(price_str) raises ValueError
ParseRaises(parts) ==
    \/ ~IntOk(Replace(parts[5], ",", <<>>))
    \/ ~FloatOk(Replace(parts[6], ",", <<>>))

\* ParseLine with the field-count test written "<" instead of "!="
ParseLine_AtLeast(line) ==
    LET parts == Split(line, "|")
    IN  IF Len(parts) < FieldCount THEN <<>>
        ELSE IF ParseRaises(parts) THEN <<>>
        ELSE <<ParseRecord(parts)>>

\* one iteration of the for loop: the records appended for this line
ParseLine(line) ==
    LET parts == Split(line, "|")
    IN  IF Len(parts) # FieldCount THEN <<>>
        ELSE IF ParseRaises(parts) THEN <<>>
        ELSE <<ParseRecord(parts)>>

RECURSIVE parse_transactions(_)
parse_transactions(lines) ==
    IF Len(lines) = 0 THEN <<>>
    ELSE ParseLine(Head(lines)) \o parse_transactions(Tail(lines))

(***************************************************************************)
(* Validator/Filter: src/utils/file_handler.py                             *)
(***************************************************************************)
\* an optional argument: None, or a value
None == [given |-> FALSE, v |-> <<>>]

\* the same for a numeric argument
NoneNum == [given |-> FALSE, v |-> 0]

Some(x) == [given |-> TRUE, v |-> x]

\* Python truthiness of an optional string argument (if region)
TruthyStr(opt) == opt.given /\ opt.v # <<>>

\* Python truthiness of an optional number argument (if min_amount)
TruthyNum(opt) == opt.given /\ opt.v # 0

Amount(txn) == txn.Quantity * txn.UnitPrice

\* line 72-78
is_valid(txn) ==
    /\ StartsWith(txn.TransactionID, "T")
    /\ StartsWith(txn.ProductID, "P")
    /\ StartsWith(txn.CustomerID, "C")
    /\ txn.Quantity > 0
    /\ txn.UnitPrice > 0

\* line 85
RegionDrops(txn, reg) == TruthyStr(reg) /\ txn.Region # reg.v

\* line 89-90
AmountDrops(txn, mn, mx) ==
    LET total_amt == Amount(txn)
    IN  \/ (TruthyNum(mn) /\ total_amt < mn.v)
        \/ (TruthyNum(mx) /\ total_amt > mx.v)

\* ValidateStep without the continue that follows invalid_count += 1
ValidateStep_NoContinue(acc, txn, reg, mn, mx) ==
    LET acc1 == IF ~is_valid(txn) THEN [acc EXCEPT !.invalid_count = @ + 1] ELSE acc
    IN  IF RegionDrops(txn, reg)
        THEN [acc1 EXCEPT !.filtered_by_region = @ + 1]
        ELSE IF AmountDrops(txn, mn, mx)
        THEN [acc1 EXCEPT !.filtered_by_amount = @ + 1]
        ELSE [acc1 EXCEPT !.valid_list = Append(@, txn)]

\* one iteration of the loop: the counters and the list after txn
ValidateStep(acc, txn, reg, mn, mx) ==
    IF ~is_valid(txn)
    THEN [acc EXCEPT !.invalid_count = @ + 1]
    ELSE IF RegionDrops(txn, reg)
    THEN [acc EXCEPT !.filtered_by_region = @ + 1]
    ELSE IF AmountDrops(txn, mn, mx)
    THEN [acc EXCEPT !.filtered_by_amount = @ + 1]
    ELSE [acc EXCEPT !.valid_list = Append(@, txn)]

RECURSIVE ValidateLoop(_, _, _, _, _)
ValidateLoop(acc, txns, reg, mn, mx) ==
    IF Len(txns) = 0 THEN acc
    ELSE ValidateLoop(ValidateStep(acc, Head(txns), reg, mn, mx),
                      Tail(txns), reg, mn, mx)

validate_and_filter(transactions, reg, mn, mx) ==
    LET acc == ValidateLoop([valid_list |-> <<>>, invalid_count |-> 0,
                             filtered_by_region |-> 0, filtered_by_amount |-> 0],
                            transactions, reg, mn, mx)
    IN  [valid_list |-> acc.valid_list,
         invalid_count |-> acc.invalid_count,
         summary |-> [total_input |-> Len(transactions),
                      invalid |-> acc.invalid_count,
                      filtered_by_region |-> acc.filtered_by_region,
                      filtered_by_amount |-> acc.filtered_by_amount,
                      final_count |-> Len(acc.valid_list)]]

NoReport == [written |-> FALSE]

NoSummary == [total_input |-> 0, invalid |-> 0, filtered_by_region |-> 0,
              filtered_by_amount |-> 0, final_count |-> 0]

(***************************************************************************)
(* Analytics Engine: src/utils/data_processor.py                           *)
(*                                                                         *)
(* A Python dict is a sequence of entries in insertion order, each entry a *)
(* record whose field key is the dict key.  A function that can raise      *)
(* returns [exc, val]: the exception's name ("none" when it returns), and  *)
(* the value returned.                                                     *)
(***************************************************************************)
Returns(x) == [exc |-> "none", val |-> x]

Raises(e) == [exc |-> e, val |-> <<>>]

\* round(num / den, 0) on exact values, ties to the even neighbour (den # 0)
RoundDiv(num, den) ==
    LET a == IF den < 0 THEN -num ELSE num
        b == IF den < 0 THEN -den ELSE den
        q == a \div b
        r == a % b
    IN  IF 2 * r < b THEN q
        ELSE IF 2 * r > b THEN q + 1
        ELSE IF q % 2 = 0 THEN q ELSE q + 1

HasKey(d, k) == \E i \in 1..Len(d) : d[i].key = k

KeyIndex(d, k) == CHOOSE i \in 1..Len(d) : d[i].key = k

\* an ascending stable sort followed by reverse(): equal keys end up in
\* reverse order
RECURSIVE SortDescBy_Reversed(_, _)
SortDescBy_Reversed(d, field) ==
    IF Len(d) = 0 THEN <<>>
    ELSE LET init == SortDescBy_Reversed(SubSeq(d, 1, Len(d) - 1), field)
             x == d[Len(d)]
             p == Cardinality({i \in 1..Len(init) : init[i][field] > x[field]})
         IN  SubSeq(init, 1, p) \o <<x>> \o SubSeq(init, p + 1, Len(init))

\* sorted(items, key=field, reverse=True): stable, equal keys keep their order
RECURSIVE SortDescBy(_, _)
SortDescBy(d, field) ==
    IF Len(d) = 0 THEN <<>>
    ELSE LET init == SortDescBy(SubSeq(d, 1, Len(d) - 1), field)
             x == d[Len(d)]
             p == Cardinality({i \in 1..Len(init) : init[i][field] >= x[field]})
         IN  SubSeq(init, 1, p) \o <<x>> \o SubSeq(init, p + 1, Len(init))

\* sorted(items, key=field): stable, ascending
RECURSIVE SortAscBy(_, _)
SortAscBy(d, field) ==
    IF Len(d) = 0 THEN <<>>
    ELSE LET init == SortAscBy(SubSeq(d, 1, Len(d) - 1), field)
             x == d[Len(d)]
             p == Cardinality({i \in 1..Len(init) : init[i][field] <= x[field]})
         IN  SubSeq(init, 1, p) \o <<x>> \o SubSeq(init, p + 1, Len(init))

\* ord(c) for the characters dates are made of
Ord(c) == IF c = "-" THEN 45 ELSE 48 + DigitVal(c)

\* a < b for Python strings: the first differing character decides, a proper
\* prefix is smaller
RECURSIVE StrLess(_, _)
StrLess(a, b) ==
    IF Len(b) = 0 THEN FALSE
    ELSE IF Len(a) = 0 THEN TRUE
    ELSE IF Head(a) # Head(b) THEN Ord(Head(a)) < Ord(Head(b))
    ELSE StrLess(Tail(a), Tail(b))

\* sorted(d.keys()) for string keys: the entries of d by ascending key
RECURSIVE SortByKey(_)
SortByKey(d) ==
    IF Len(d) = 0 THEN <<>>
    ELSE LET init == SortByKey(SubSeq(d, 1, Len(d) - 1))
             x == d[Len(d)]
             p == Cardinality({i \in 1..Len(init) : ~StrLess(x.key, init[i].key)})
         IN  SubSeq(init, 1, p) \o <<x>> \o SubSeq(init, p + 1, Len(init))

RECURSIVE calculate_total_revenue(_)
calculate_total_revenue(transactions) ==
    IF Len(transactions) = 0 THEN 0
    ELSE Amount(Head(transactions)) + calculate_total_revenue(Tail(transactions))

\* lines 44-50: the grouping loop of region_wise_sales
RECURSIVE RegionStats(_)
RegionStats(transactions) ==
    IF Len(transactions) = 0 THEN <<>>
    ELSE LET d == RegionStats(SubSeq(transactions, 1, Len(transactions) - 1))
             t == transactions[Len(transactions)]
             reg == t.Region
             rev == Amount(t)
             d1 == IF HasKey(d, reg) THEN d
                   ELSE Append(d, [key |-> reg, total_sales |-> 0,
                                   transaction_count |-> 0])
             i == KeyIndex(d1, reg)
         IN  [d1 EXCEPT ![i].total_sales = @ + rev,
                        ![i].transaction_count = @ + 1]

\* line 53: the percentage of one region (total_rev # 0)
Percentage(total_sales, total_rev) == RoundDiv(total_sales * 10000, total_rev)

region_wise_sales(transactions) ==
    LET total_rev == calculate_total_revenue(transactions)
        region_stats == RegionStats(transactions)
    IN  IF Len(region_stats) > 0 /\ total_rev = 0
        THEN Raises("ZeroDivisionError")
        ELSE Returns(SortDescBy(
                 [i \in 1..Len(region_stats) |->
                     [key |-> region_stats[i].key,
                      total_sales |-> region_stats[i].total_sales,
                      transaction_count |-> region_stats[i].transaction_count,
                      percentage |-> Percentage(region_stats[i].total_sales, total_rev)]],
                 "total_sales"))

\* lines 61-67: the grouping loop of daily_sales_trend
RECURSIVE DailyStats(_)
DailyStats(transactions) ==
    IF Len(transactions) = 0 THEN <<>>
    ELSE LET d == DailyStats(SubSeq(transactions, 1, Len(transactions) - 1))
             t == transactions[Len(transactions)]
             d1 == IF HasKey(d, t.Date) THEN d
                   ELSE Append(d, [key |-> t.Date, revenue |-> 0,
                                   transaction_count |-> 0, customers |-> {}])
             i == KeyIndex(d1, t.Date)
         IN  [d1 EXCEPT ![i].revenue = @ + Amount(t),
                        ![i].transaction_count = @ + 1,
                        ![i].customers = @ \cup {t.CustomerID}]

daily_sales_trend(transactions) ==
    LET daily_stats == SortByKey(DailyStats(transactions))
    IN  [i \in 1..Len(daily_stats) |->
            [key |-> daily_stats[i].key,
             revenue |-> daily_stats[i].revenue,
             transaction_count |-> daily_stats[i].transaction_count,
             unique_customers |-> Cardinality(daily_stats[i].customers)]]

\* a maximum search that keeps the last of several equal maxima (>=)
LastMax(trend) ==
    CHOOSE i \in 1..Len(trend) :
        /\ \A j \in 1..Len(trend) : trend[j].revenue <= trend[i].revenue
        /\ \A j \in (i + 1)..Len(trend) : trend[j].revenue < trend[i].revenue

\* max(trend, key=revenue): the first entry, in iteration order, that no
\* entry exceeds
FirstMax(trend) ==
    CHOOSE i \in 1..Len(trend) :
        /\ \A j \in 1..Len(trend) : trend[j].revenue <= trend[i].revenue
        /\ \A j \in 1..(i - 1) : trend[j].revenue < trend[i].revenue

find_peak_sales_day(transactions) ==
    LET trend == daily_sales_trend(transactions)
    IN  IF Len(trend) = 0 THEN Raises("ValueError")
        ELSE LET peak == trend[FirstMax(trend)]
             IN  Returns([peak_date |-> peak.key, revenue |-> peak.revenue,
                          transaction_count |-> peak.transaction_count])

\* lines 87-92: the grouping loop of top_selling_products
RECURSIVE ProductStats(_)
ProductStats(transactions) ==
    IF Len(transactions) = 0 THEN <<>>
    ELSE LET d == ProductStats(SubSeq(transactions, 1, Len(transactions) - 1))
             t == transactions[Len(transactions)]
             d1 == IF HasKey(d, t.ProductName) THEN d
                   ELSE Append(d, [key |-> t.ProductName, qty |-> 0, rev |-> 0])
             i == KeyIndex(d1, t.ProductName)
         IN  [d1 EXCEPT ![i].qty = @ + t.Quantity, ![i].rev = @ + Amount(t)]

\* s[:k]
Slice(s, k) ==
    IF k >= 0 THEN SubSeq(s, 1, IF k < Len(s) THEN k ELSE Len(s))
    ELSE SubSeq(s, 1, IF Len(s) + k > 0 THEN Len(s) + k ELSE 0)

DefaultTopN == 5

\* top_selling_products without reverse=True
top_selling_products_Ascending(transactions, k) ==
    Slice(SortAscBy(ProductStats(transactions), "qty"), k)

top_selling_products(transactions, k) ==
    LET sorted_products == SortDescBy(ProductStats(transactions), "qty")
    IN  Slice(sorted_products, k)

DefaultThreshold == 10

\* line 104: the revenue of product p, summed over all its transactions
RECURSIVE ProductRevenue(_, _)
ProductRevenue(transactions, p) ==
    IF Len(transactions) = 0 THEN 0
    ELSE (IF Head(transactions).ProductName = p THEN Amount(Head(transactions)) ELSE 0)
         + ProductRevenue(Tail(transactions), p)

low_performing_products(transactions, threshold) ==
    LET product_stats == ProductStats(transactions)
        low == SelectSeq(product_stats, LAMBDA e : e.qty < threshold)
        low_p == [i \in 1..Len(low) |->
                     [key |-> low[i].key, qty |-> low[i].qty,
                      rev |-> ProductRevenue(transactions, low[i].key)]]
    IN  SortAscBy(low_p, "qty")

\* lines 111-117: the grouping loop of customer_analysis
RECURSIVE CustomerStats(_)
CustomerStats(transactions) ==
    IF Len(transactions) = 0 THEN <<>>
    ELSE LET d == CustomerStats(SubSeq(transactions, 1, Len(transactions) - 1))
             t == transactions[Len(transactions)]
             d1 == IF HasKey(d, t.CustomerID) THEN d
                   ELSE Append(d, [key |-> t.CustomerID, total_spent |-> 0,
                                   count |-> 0, products |-> {}])
             i == KeyIndex(d1, t.CustomerID)
         IN  [d1 EXCEPT ![i].total_spent = @ + Amount(t),
                        ![i].count = @ + 1,
                        ![i].products = @ \cup {t.ProductName}]

customer_analysis(transactions) ==
    LET cust_stats == CustomerStats(transactions)
    IN  SortDescBy(
            [i \in 1..Len(cust_stats) |->
                [key |-> cust_stats[i].key,
                 total_spent |-> cust_stats[i].total_spent,
                 count |-> cust_stats[i].count,
                 avg_order_value |-> RoundDiv(cust_stats[i].total_spent,
                                              cust_stats[i].count),
                 products_bought |-> cust_stats[i].products]],
            "total_spent")

(***************************************************************************)
(* External data provider: src/utils/api_handler.py                        *)
(***************************************************************************)
\* what the HTTP call can do: answer with a rates table (with or without an
\* INR entry), answer without a 'rates' member, or raise a RequestException
\* (timeout, connection error, HTTP error status)
ProviderOutcomes ==
    {"ok", "ok_no_inr", "ok_no_rates", "timeout", "connection_error", "http_error"}

ProviderFails(outcome) ==
    outcome \in {"timeout", "connection_error", "http_error"}

\* line 17
FallbackRates == [INR |-> 8300, EUR |-> 92, GBP |-> 79]

\* the JSON body of an answer (rates of the day, in hundredths)
ResponseJson(outcome) ==
    IF outcome = "ok" THEN [rates |-> [INR |-> 8450, EUR |-> 93]]
    ELSE IF outcome = "ok_no_inr" THEN [rates |-> [EUR |-> 93]]
    ELSE [base |-> "USD"]

\* fetch_exchange_rates whose except branch returns an empty table
fetch_exchange_rates_NoFallback(outcome) ==
    IF ProviderFails(outcome) THEN <<>>
    ELSE LET data == ResponseJson(outcome)
         IN  IF "rates" \in DOMAIN data THEN data.rates ELSE <<>>

fetch_exchange_rates(outcome) ==
    IF ProviderFails(outcome) THEN FallbackRates
    ELSE LET data == ResponseJson(outcome)
         IN  IF "rates" \in DOMAIN data THEN data.rates ELSE <<>>

fetch_region_managers ==
    << [key |-> North, name |-> "Amit Sharma"],
       [key |-> South, name |-> "Priya Mani"],
       [key |-> East, name |-> "Rajesh Gupta"],
       [key |-> West, name |-> "Sneha Patil"] >>

(***************************************************************************)
(* Enrichment Stage: src/utils/data_processor.py                           *)
(***************************************************************************)
DefaultINR == 8300

\* line 133: rates.get('INR', 83.0)
InrRate(table) == IF "INR" \in DOMAIN table THEN table.INR ELSE DefaultINR

\* line 142: managers.get(txn['Region'], "Unknown")
ManagerOf(managers, reg) ==
    IF HasKey(managers, reg) THEN managers[KeyIndex(managers, reg)].name
    ELSE "Unknown"

EnrichedFields == {"UnitPrice_INR", "Total_Amount_INR", "Region_Manager"}

\* EnrichTxn that stores the converted price under UnitPrice
EnrichTxn_Overwrite(txn, rate, managers) ==
    LET price_inr == RoundDiv(txn.UnitPrice * rate, 100)
    IN  [f \in DOMAIN txn \cup EnrichedFields |->
            IF f = "UnitPrice_INR" \/ f = "UnitPrice" THEN price_inr
            ELSE IF f = "Total_Amount_INR" THEN txn.Quantity * price_inr
            ELSE IF f = "Region_Manager" THEN ManagerOf(managers, txn.Region)
            ELSE txn[f]]

\* lines 138-142: the three assignments to txn's keys
EnrichTxn(txn, rate, managers) ==
    LET price_inr == RoundDiv(txn.UnitPrice * rate, 100)
    IN  [f \in DOMAIN txn \cup EnrichedFields |->
            IF f = "UnitPrice_INR" THEN price_inr
            ELSE IF f = "Total_Amount_INR" THEN txn.Quantity * price_inr
            ELSE IF f = "Region_Manager" THEN ManagerOf(managers, txn.Region)
            ELSE txn[f]]

\* the list after the call (the dicts of the list are changed in place and
\* the same list is returned) under the given answer of the provider
enrich_transaction_data(transactions, outcome) ==
    LET inr == InrRate(fetch_exchange_rates(outcome))
        managers == fetch_region_managers
    IN  [i \in 1..Len(transactions) |-> EnrichTxn(transactions[i], inr, managers)]

(***************************************************************************)
(* Report Renderer: src/utils/data_processor.py                            *)
(***************************************************************************)
ReportTopN == 5

TrendRows == 10

\* sorted([t['Date'] ...])[0] and [-1]
DateRange(transactions) ==
    IF Len(transactions) = 0 THEN "N/A"
    ELSE LET dates == SortByKey([i \in 1..Len(transactions) |->
                                    [key |-> transactions[i].Date]])
         IN  <<dates[1].key, dates[Len(dates)].key>>

\* lines 152-162 and 213-214: exc is the exception leaving the function before
\* the file is opened, val the document written otherwise
generate_sales_report(transactions, enriched_transactions) ==
    LET total_rev == calculate_total_revenue(transactions)
        avg_order == IF Len(transactions) > 0
                     THEN RoundDiv(total_rev, Len(transactions)) ELSE 0
        regions == region_wise_sales(transactions)
        peak == find_peak_sales_day(transactions)
        enriched_count == Cardinality({i \in 1..Len(enriched_transactions) :
                              "Region_Manager" \in DOMAIN enriched_transactions[i]})
    IN  IF regions.exc # "none" THEN Raises(regions.exc)
        ELSE IF peak.exc # "none" THEN Raises(peak.exc)
        ELSE Returns(
            [records |-> Len(transactions),
             total_rev |-> total_rev,
             avg_order |-> avg_order,
             date_range |-> DateRange(transactions),
             regions |-> regions.val,
             top_prods |-> top_selling_products(transactions, ReportTopN),
             top_custs |-> Slice(customer_analysis(transactions), ReportTopN),
             trends |-> Slice(daily_sales_trend(transactions), TrendRows),
             peak |-> peak.val,
             low_count |-> Len(low_performing_products(transactions, DefaultThreshold)),
             enriched_count |-> enriched_count,
             success_rate |-> IF Len(transactions) > 0
                              THEN RoundDiv(enriched_count * 10000, Len(transactions))
                              ELSE 0])

(***************************************************************************)
(* Inputs of the model.                                                    *)
(***************************************************************************)
BoundedSeq(S, k) == UNION {[1..m -> S] : m \in 0..k}

T1 == <<"T", "1">>
T2 == <<"T", "2">>
X1 == <<"X", "1">>
P1 == <<"P", "1">>
P2 == <<"P", "2">>
C1 == <<"C", "1">>
C2 == <<"C", "2">>
Day01 == <<"0", "1">>
Day02 == <<"0", "2">>
Day10 == <<"1", "0">>
Widget == <<"W">>
Gadget == <<"G">>

Line(fields) == Join(fields, "|")

\* lines as read_sales_data returns them: stripped and not empty
LinePool ==
    { Line(<<T1, Day01, P1, Widget, <<"5">>, <<"1", "0">>, C1, North>>),
      Line(<<X1, Day01, P1, Widget, <<"5">>, <<"1", "0">>, C1, North>>),
      Line(<<T1, Day01, P1, Widget, <<"5">>, <<"1", "0">>, C1>>),
      Line(<<T1, Day01, P1, Widget, <<"5">>, <<"1", "0">>, C1, North, <<"x">>>>),
      Line(<<T2, Day02, P2, <<"G", ",", "X">>, <<"1", ",", "0">>,
             <<"1", ",", "9", "1", "6">>, C2, South>>),
      Line(<<T1, Day01, P1, Widget, <<"x">>, <<"1", "0">>, C1, North>>),
      Line(<<T1, Day01, P1, Widget, <<"5">>, <<"1", ".", "5", ".", "2">>, C1, North>>),
      Line(<<T1, Day01, P1, Widget, <<"1", ".", "5">>, <<"1", "0">>, C1, North>>),
      Line(<<T1, Day10, P1, Widget, <<" ", "5">>, <<"2", ".", "5">>, C1, South>>),
      Line(<<T1, Day01, P1, Widget, <<>>, <<"1", "0">>, C1, North>>),
      Line(<<T1, Day01, P1, Widget, <<"-", "1">>, <<"1", "0">>, C1, North>>),
      Line(<<T2, Day10, P2, Gadget, <<"3">>, <<"1", "0">>, C2, Central>>) }

(***************************************************************************)
(* parse_transactions as a function of its input.                          *)
(***************************************************************************)
ParseInit ==
    /\ pc = "parse"
    /\ raw_lines \in BoundedSeq(LinePool, MaxLines)
    /\ all_transactions = <<>>
    /\ file_exists = TRUE
    /\ region = None /\ min_amount = NoneNum /\ max_amount = NoneNum
    /\ valid_txns = <<>> /\ summary = NoSummary
    /\ rates = <<>> /\ provider = <<>> /\ inr_rate = 0
    /\ n = 0 /\ result = <<>> /\ orig = <<>> /\ calls = 0
    /\ report = NoReport

ParseCall ==
    /\ pc = "parse"
    /\ all_transactions' = parse_transactions(raw_lines)
    /\ pc' = "parsed"
    /\ UNCHANGED <<file_exists, raw_lines, region, min_amount, max_amount,
                   valid_txns, summary, rates, provider, inr_rate, n, result,
                   orig, calls, report>>

ParseNext == ParseCall

ParseSpec == ParseInit /\ [][ParseNext]_vars

PipeCount(line) == Cardinality({i \in 1..Len(line) : line[i] = "|"})

NoCommas(s) == SelectSeq(s, LAMBDA c : c # ",")

\* the line has exactly 8 fields and both numeric fields convert
C1_Accepted(line) ==
    /\ PipeCount(line) = 7
    /\ IntOk(NoCommas(Split(line, "|")[5]))
    /\ FloatOk(NoCommas(Split(line, "|")[6]))

\* C1: the output of parse_transactions is exactly, and in input order, the
\* records of the lines that have exactly 8 fields and whose Quantity and
\* UnitPrice convert once commas are stripped; any other line gives no record.
C1_ParseExact ==
    pc = "parsed" =>
        LET kept == SelectSeq(raw_lines, C1_Accepted)
        IN  /\ Len(all_transactions) = Len(kept)
            /\ \A i \in 1..Len(kept) :
                 LET f == Split(kept[i], "|")
                     t == all_transactions[i]
                 IN  /\ t.TransactionID = f[1] /\ t.Date = f[2]
                     /\ t.ProductID = f[3] /\ t.CustomerID = f[7]
                     /\ t.Region = f[8]
                     /\ t.Quantity = IntVal(NoCommas(f[5]))
                     /\ t.UnitPrice = FloatVal(NoCommas(f[6]))
                     /\ DOMAIN t = {"TransactionID", "Date", "ProductID",
                                    "ProductName", "Quantity", "UnitPrice",
                                    "CustomerID", "Region"}

\* a malformed line was dropped and a line with "1,916" was kept as 1916.00
C1_Witness ==
    /\ pc = "parsed"
    /\ Len(raw_lines) = 2
    /\ Len(all_transactions) = 1
    /\ all_transactions[1].UnitPrice = 191600
    /\ all_transactions[1].Quantity = 10

(***************************************************************************)
(* validate_and_filter as a function of its inputs.                        *)
(***************************************************************************)
Txn(tid, date, pid, name, qty, price, cid, reg) ==
    [TransactionID |-> tid, Date |-> date, ProductID |-> pid,
     ProductName |-> name, Quantity |-> qty, UnitPrice |-> price,
     CustomerID |-> cid, Region |-> reg]

\* parsed records: valid ones, a bad TransactionID prefix, a zero quantity
ValidatePool ==
    { Txn(T1, Day01, P1, Widget, 5, 1000, C1, North),
      Txn(T1, Day01, P1, Widget, 5, 1000, C1, South),
      Txn(X1, Day01, P1, Widget, 5, 1000, C1, South),
      Txn(T1, Day01, P1, Widget, 0, 1000, C1, North),
      Txn(T2, Day02, P2, Gadget, 9, 1000, C2, North) }

RegionArgs == {None, Some(<<>>), Some(North), Some(East)}

AmountArgs == {NoneNum, Some(0), Some(6000)}

ValidateInit ==
    /\ pc = "validate"
    /\ all_transactions \in BoundedSeq(ValidatePool, MaxTxns)
    /\ region \in RegionArgs
    /\ min_amount \in AmountArgs
    /\ max_amount \in AmountArgs
    /\ valid_txns = <<>> /\ summary = NoSummary
    /\ file_exists = TRUE /\ raw_lines = <<>>
    /\ rates = <<>> /\ provider = <<>> /\ inr_rate = 0
    /\ n = 0 /\ result = <<>> /\ orig = <<>> /\ calls = 0
    /\ report = NoReport

ValidateCall ==
    /\ pc = "validate"
    /\ LET r == validate_and_filter(all_transactions, region, min_amount, max_amount)
       IN  /\ valid_txns' = r.valid_list
           /\ summary' = r.summary
           /\ result' = r.invalid_count
    /\ pc' = "validated"
    /\ UNCHANGED <<file_exists, raw_lines, all_transactions, region, min_amount,
                   max_amount, rates, provider, inr_rate, n, orig, calls, report>>

ValidateNext == ValidateCall

ValidateSpec == ValidateInit /\ [][ValidateNext]_vars

\* a is b with some elements left out, the others in the same order
RECURSIVE IsSubsequence(_, _)
IsSubsequence(a, b) ==
    IF Len(a) = 0 THEN TRUE
    ELSE IF Len(b) = 0 THEN FALSE
    ELSE IF Head(a) = Head(b) THEN IsSubsequence(Tail(a), Tail(b))
    ELSE IsSubsequence(a, Tail(b))

\* the business rule of the data model: three prefixes, Quantity > 0, UnitPrice > 0
C2_Valid(t) ==
    /\ Len(t.TransactionID) > 0 /\ Head(t.TransactionID) = "T"
    /\ Len(t.ProductID) > 0 /\ Head(t.ProductID) = "P"
    /\ Len(t.CustomerID) > 0 /\ Head(t.CustomerID) = "C"
    /\ t.Quantity >= 1 /\ t.UnitPrice >= 1

\* a (non-empty) region filter is set and the record is of another region
C2_RegionFails(t) == region.given /\ region.v # <<>> /\ t.Region # region.v

\* C2: every input transaction is counted exactly once, as invalid, filtered by
\* region, filtered by amount or kept, with precedence invalid -> region ->
\* amount; total_input is the sum of the four counts; the kept list is in
\* input order.
C2_Partition ==
    pc = "validated" =>
        LET idx == 1..Len(all_transactions)
            inval == {i \in idx : ~C2_Valid(all_transactions[i])}
            regf == {i \in idx \ inval : C2_RegionFails(all_transactions[i])}
            rest == (idx \ inval) \ regf
        IN  /\ summary.total_input = Len(all_transactions)
            /\ summary.total_input = summary.invalid + summary.filtered_by_region
                                     + summary.filtered_by_amount + summary.final_count
            /\ summary.invalid = Cardinality(inval)
            /\ result = summary.invalid
            /\ summary.filtered_by_region = Cardinality(regf)
            /\ summary.filtered_by_amount + summary.final_count = Cardinality(rest)
            /\ summary.final_count = Len(valid_txns)
            /\ IsSubsequence(valid_txns, all_transactions)
            /\ \A i \in 1..Len(valid_txns) :
                 C2_Valid(valid_txns[i]) /\ ~C2_RegionFails(valid_txns[i])

\* an X-prefixed record of another region is counted as invalid only, a valid
\* record of another region under region, one above the maximum under amount
C2_Witness ==
    /\ pc = "validated"
    /\ region = Some(North)
    /\ Len(all_transactions) = 3
    /\ \E i \in 1..3 : all_transactions[i].TransactionID = X1
    /\ summary.invalid = 1
    /\ summary.filtered_by_region = 1
    /\ summary.filtered_by_amount + summary.final_count = 1

\* C3: a provided amount bound always applies, a bound of 0 included: no kept
\* transaction lies below a provided minimum or above a provided maximum, and
\* every valid region-passing transaction outside the bounds is counted in
\* filtered_by_amount.
C3_BoundsApply ==
    pc = "validated" =>
        LET OutOfRange(t) == \/ (min_amount.given /\ Amount(t) < min_amount.v)
                             \/ (max_amount.given /\ Amount(t) > max_amount.v)
            cand == {i \in 1..Len(all_transactions) :
                        /\ C2_Valid(all_transactions[i])
                        /\ ~C2_RegionFails(all_transactions[i])}
        IN  /\ \A i \in 1..Len(valid_txns) : ~OutOfRange(valid_txns[i])
            /\ summary.filtered_by_amount =
                 Cardinality({i \in cand : OutOfRange(all_transactions[i])})

(***************************************************************************)
(* Helpers of the properties of the analytics functions.                   *)
(***************************************************************************)
\* the sum of Quantity x UnitPrice over the transactions at the indices in I
RECURSIVE SumAt(_, _)
SumAt(txns, I) ==
    IF I = {} THEN 0
    ELSE LET i == CHOOSE j \in I : TRUE
         IN  txns[i].Quantity * txns[i].UnitPrice + SumAt(txns, I \ {i})

RECURSIVE QtyAt(_, _)
QtyAt(txns, I) ==
    IF I = {} THEN 0
    ELSE LET i == CHOOSE j \in I : TRUE
         IN  txns[i].Quantity + QtyAt(txns, I \ {i})

\* the indices of the transactions whose field f is x, and the first of them
IndicesOf(txns, f, x) == {i \in 1..Len(txns) : txns[i][f] = x}

FirstOf(txns, f, x) ==
    CHOOSE i \in IndicesOf(txns, f, x) : \A j \in IndicesOf(txns, f, x) : i <= j

ValuesOf(txns, f) == {txns[i][f] : i \in 1..Len(txns)}

KeysOf(d) == {d[i].key : i \in 1..Len(d)}

DistinctKeys(d) == \A i, j \in 1..Len(d) : d[i].key = d[j].key => i = j

(***************************************************************************)
(* region_wise_sales as a function of its input.                           *)
(***************************************************************************)
RegionPool ==
    { Txn(T1, Day01, P1, Widget, q, 10000, C1, r) :
        q \in {0, 1, 3}, r \in {North, South, East} }

RegionInit ==
    /\ pc = "region"
    /\ valid_txns \in BoundedSeq(RegionPool, MaxTxns)
    /\ result = <<>>
    /\ file_exists = TRUE /\ raw_lines = <<>> /\ all_transactions = <<>>
    /\ region = None /\ min_amount = NoneNum /\ max_amount = NoneNum
    /\ summary = NoSummary
    /\ rates = <<>> /\ provider = <<>> /\ inr_rate = 0
    /\ n = 0 /\ orig = <<>> /\ calls = 0
    /\ report = NoReport

RegionCall ==
    /\ pc = "region"
    /\ result' = region_wise_sales(valid_txns)
    /\ pc' = "region_done"
    /\ UNCHANGED <<file_exists, raw_lines, all_transactions, region, min_amount,
                   max_amount, valid_txns, summary, rates, provider, inr_rate,
                   n, orig, calls, report>>

RegionNext == RegionCall

RegionSpec == RegionInit /\ [][RegionNext]_vars

\* C6: when the overall total revenue is 0, region_wise_sales returns without
\* error and every region's percentage is 0.
C6_NoDivisionByZero ==
    (pc = "region_done" /\ SumAt(valid_txns, 1..Len(valid_txns)) = 0) =>
        /\ result.exc = "none"
        /\ \A i \in 1..Len(result.val) : result.val[i].percentage = 0

\* C9: for a non-empty list of valid transactions the result has one entry
\* per region, with the region's total, by total sales descending, equal
\* totals in the order the regions first appear in the input; North = 100 and
\* South = 300 give South (75.0) before North (25.0).
C9_RegionOrder ==
    (/\ pc = "region_done"
     /\ Len(valid_txns) > 0
     /\ \A i \in 1..Len(valid_txns) : C2_Valid(valid_txns[i])) =>
        /\ result.exc = "none"
        /\ LET d == result.val
           IN  /\ DistinctKeys(d)
               /\ KeysOf(d) = ValuesOf(valid_txns, "Region")
               /\ \A i \in 1..Len(d) :
                    /\ d[i].total_sales =
                         SumAt(valid_txns, IndicesOf(valid_txns, "Region", d[i].key))
                    /\ d[i].transaction_count =
                         Cardinality(IndicesOf(valid_txns, "Region", d[i].key))
               /\ \A i, j \in 1..Len(d) :
                    i < j =>
                      \/ d[i].total_sales > d[j].total_sales
                      \/ /\ d[i].total_sales = d[j].total_sales
                         /\ FirstOf(valid_txns, "Region", d[i].key)
                              < FirstOf(valid_txns, "Region", d[j].key)
               /\ (/\ Len(d) = 2
                   /\ \E i \in 1..2 : d[i].key = North /\ d[i].total_sales = 10000
                   /\ \E i \in 1..2 : d[i].key = South /\ d[i].total_sales = 30000) =>
                      /\ d[1].key = South /\ d[1].percentage = 7500
                      /\ d[2].key = North /\ d[2].percentage = 2500

\* two regions tie at 300 and the one met first comes first, ahead of a
\* region met before both
C9_Witness ==
    /\ pc = "region_done"
    /\ Len(valid_txns) = 3
    /\ valid_txns[1].Region = North /\ valid_txns[1].Quantity = 1
    /\ valid_txns[2].Region = South /\ valid_txns[2].Quantity = 3
    /\ valid_txns[3].Region = East /\ valid_txns[3].Quantity = 3
    /\ result.exc = "none"
    /\ result.val[1].key = South /\ result.val[2].key = East
    /\ result.val[3].key = North

(***************************************************************************)
(* daily_sales_trend and find_peak_sales_day as functions of their input.  *)
(***************************************************************************)
TrendPool ==
    { Txn(T1, d, P1, Widget, q, 1000, c, North) :
        d \in {Day01, Day02, Day10}, q \in {1, 2}, c \in {C1, C2} }

TrendInit ==
    /\ pc = "trend"
    /\ valid_txns \in BoundedSeq(TrendPool, MaxTxns)
    /\ result = <<>>
    /\ file_exists = TRUE /\ raw_lines = <<>> /\ all_transactions = <<>>
    /\ region = None /\ min_amount = NoneNum /\ max_amount = NoneNum
    /\ summary = NoSummary
    /\ rates = <<>> /\ provider = <<>> /\ inr_rate = 0
    /\ n = 0 /\ orig = <<>> /\ calls = 0
    /\ report = NoReport

TrendCall ==
    /\ pc = "trend"
    /\ result' = [trend |-> daily_sales_trend(valid_txns),
                  peak |-> find_peak_sales_day(valid_txns)]
    /\ pc' = "trend_done"
    /\ UNCHANGED <<file_exists, raw_lines, all_transactions, region, min_amount,
                   max_amount, valid_txns, summary, rates, provider, inr_rate,
                   n, orig, calls, report>>

TrendNext == TrendCall

TrendSpec == TrendInit /\ [][TrendNext]_vars

\* the day number a fixed-width date stands for
DayNumber(date) == DigitsVal(date)

\* C10: for a non-empty list the daily trend has one entry per distinct Date,
\* in ascending date order whatever the input order, and the peak day is a
\* date of maximal summed revenue, the earliest of them, returned with that
\* date's revenue and transaction count.
C10_TrendAndPeak ==
    (pc = "trend_done" /\ Len(valid_txns) > 0) =>
        LET d == result.trend
            Rev(date) == SumAt(valid_txns, IndicesOf(valid_txns, "Date", date))
            dates == ValuesOf(valid_txns, "Date")
        IN  /\ DistinctKeys(d)
            /\ KeysOf(d) = dates
            /\ \A i, j \in 1..Len(d) :
                 i < j => DayNumber(d[i].key) < DayNumber(d[j].key)
            /\ \A i \in 1..Len(d) :
                 /\ d[i].revenue = Rev(d[i].key)
                 /\ d[i].transaction_count =
                      Cardinality(IndicesOf(valid_txns, "Date", d[i].key))
                 /\ d[i].unique_customers =
                      Cardinality({valid_txns[k].CustomerID :
                                     k \in IndicesOf(valid_txns, "Date", d[i].key)})
            /\ result.peak.exc = "none"
            /\ LET pk == result.peak.val
               IN  /\ pk.peak_date \in dates
                   /\ pk.revenue = Rev(pk.peak_date)
                   /\ pk.transaction_count =
                        Cardinality(IndicesOf(valid_txns, "Date", pk.peak_date))
                   /\ \A x \in dates : Rev(x) <= pk.revenue
                   /\ \A x \in dates :
                        Rev(x) = pk.revenue => DayNumber(pk.peak_date) <= DayNumber(x)

\* the input is in descending date order, two dates tie for the maximum and
\* the earlier of them is the peak
C10_Witness ==
    /\ pc = "trend_done"
    /\ Len(valid_txns) = 3
    /\ valid_txns[1].Date = Day10 /\ valid_txns[1].Quantity = 2
    /\ valid_txns[2].Date = Day02 /\ valid_txns[2].Quantity = 2
    /\ valid_txns[3].Date = Day01 /\ valid_txns[3].Quantity = 1
    /\ result.trend[1].key = Day01
    /\ result.peak.val.peak_date = Day02

(***************************************************************************)
(* top_selling_products as a function of its inputs.                       *)
(***************************************************************************)
Hammer == <<"H">>

TopPool ==
    { Txn(T1, Day01, P1, name, q, 1000, C1, North) :
        name \in {Widget, Gadget, Hammer}, q \in {1, 2} }

TopInit ==
    /\ pc = "top"
    /\ valid_txns \in BoundedSeq(TopPool, MaxTxns)
    /\ n \in 0..MaxN
    /\ result = <<>>
    /\ file_exists = TRUE /\ raw_lines = <<>> /\ all_transactions = <<>>
    /\ region = None /\ min_amount = NoneNum /\ max_amount = NoneNum
    /\ summary = NoSummary
    /\ rates = <<>> /\ provider = <<>> /\ inr_rate = 0
    /\ orig = <<>> /\ calls = 0
    /\ report = NoReport

TopCall ==
    /\ pc = "top"
    /\ result' = top_selling_products(valid_txns, n)
    /\ pc' = "top_done"
    /\ UNCHANGED <<file_exists, raw_lines, all_transactions, region, min_amount,
                   max_amount, valid_txns, summary, rates, provider, inr_rate,
                   n, orig, calls, report>>

TopNext == TopCall

TopSpec == TopInit /\ [][TopNext]_vars

\* C8: the result has at most N entries, one per distinct ProductName, with
\* the product's summed quantity and revenue, by quantity descending, equal
\* quantities in order of first encounter; it holds the N highest-quantity
\* products (all of them when there are fewer than N).
C8_TopN ==
    pc = "top_done" =>
        LET d == result
            names == ValuesOf(valid_txns, "ProductName")
            Qty(p) == QtyAt(valid_txns, IndicesOf(valid_txns, "ProductName", p))
            First(p) == FirstOf(valid_txns, "ProductName", p)
            Before(p, q) == Qty(p) > Qty(q) \/ (Qty(p) = Qty(q) /\ First(p) < First(q))
        IN  /\ Len(d) <= n
            /\ Len(d) = IF Cardinality(names) < n THEN Cardinality(names) ELSE n
            /\ DistinctKeys(d)
            /\ KeysOf(d) \subseteq names
            /\ \A i \in 1..Len(d) :
                 /\ d[i].qty = Qty(d[i].key)
                 /\ d[i].rev = SumAt(valid_txns,
                                     IndicesOf(valid_txns, "ProductName", d[i].key))
            /\ \A i, j \in 1..Len(d) : i < j => Before(d[i].key, d[j].key)
            /\ \A p \in names \ KeysOf(d) :
                 \A i \in 1..Len(d) : Before(d[i].key, p)

\* three products, two of them tied, and N = 2 cuts the later of the tied ones
C8_Witness ==
    /\ pc = "top_done"
    /\ n = 2
    /\ Len(valid_txns) = 3
    /\ valid_txns[1].ProductName = Widget /\ valid_txns[1].Quantity = 1
    /\ valid_txns[2].ProductName = Gadget /\ valid_txns[2].Quantity = 2
    /\ valid_txns[3].ProductName = Hammer /\ valid_txns[3].Quantity = 2
    /\ Len(result) = 2
    /\ result[1].key = Gadget /\ result[2].key = Hammer

(***************************************************************************)
(* enrich_transaction_data, called once or again on its own result.        *)
(***************************************************************************)
EnrichPool ==
    { Txn(T1, Day01, P1, Widget, 5, 1000, C1, North),
      Txn(T2, Day02, P2, Gadget, 10, 191600, C2, South),
      Txn(T2, Day10, P2, Gadget, 3, 1000, C2, Central),
      Txn(T1, Day10, P1, Widget, 5, 250, C1, <<>>) }

EnrichInit ==
    /\ pc = "enrich"
    /\ valid_txns \in BoundedSeq(EnrichPool, MaxTxns)
    /\ orig = valid_txns
    /\ calls = 0
    /\ provider = <<>> /\ inr_rate = 0 /\ result = <<>>
    /\ file_exists = TRUE /\ raw_lines = <<>> /\ all_transactions = <<>>
    /\ region = None /\ min_amount = NoneNum /\ max_amount = NoneNum
    /\ summary = NoSummary
    /\ rates = <<>> /\ n = 0
    /\ report = NoReport

\* one call of enrich_transaction_data on the list; result keeps the manager
\* labels the first call attached
EnrichCall ==
    /\ pc = "enrich"
    /\ calls < MaxCalls
    /\ \E outcome \in ProviderOutcomes :
         LET enriched == enrich_transaction_data(valid_txns, outcome)
         IN  /\ provider' = Append(provider, outcome)
             /\ inr_rate' = InrRate(fetch_exchange_rates(outcome))
             /\ valid_txns' = enriched
             /\ result' = IF calls = 0
                          THEN [i \in 1..Len(enriched) |-> enriched[i].Region_Manager]
                          ELSE result
    /\ calls' = calls + 1
    /\ UNCHANGED <<pc, file_exists, raw_lines, all_transactions, region,
                   min_amount, max_amount, summary, rates, n, orig, report>>

EnrichNext == EnrichCall

EnrichSpec == EnrichInit /\ [][EnrichNext]_vars

BaseFields ==
    {"TransactionID", "Date", "ProductID", "ProductName", "Quantity",
     "UnitPrice", "CustomerID", "Region"}

\* the fixed 4-region manager table
C7_Label(reg) ==
    IF reg = North THEN "Amit Sharma"
    ELSE IF reg = South THEN "Priya Mani"
    ELSE IF reg = East THEN "Rajesh Gupta"
    ELSE IF reg = West THEN "Sneha Patil"
    ELSE "Unknown"

\* C7: after enrichment, whatever the provider did, every transaction's eight
\* base fields are as before, its manager label is the mapping's entry for
\* its Region or "Unknown", and enriching again leaves the labels as the first
\* enrichment set them.
C7_Additive ==
    calls >= 1 =>
        /\ Len(valid_txns) = Len(orig)
        /\ \A i \in 1..Len(valid_txns) :
             /\ \A f \in BaseFields : valid_txns[i][f] = orig[i][f]
             /\ DOMAIN valid_txns[i] = BaseFields \cup EnrichedFields
             /\ valid_txns[i].Region_Manager = C7_Label(orig[i].Region)
             /\ valid_txns[i].Region_Manager = result[i]

\* the list was enriched twice, the second time at another rate, and holds a
\* region without manager
C7_Witness ==
    /\ calls = 2
    /\ provider = <<"timeout", "ok">>
    /\ \E i \in 1..Len(valid_txns) :
         /\ valid_txns[i].Region = Central
         /\ valid_txns[i].Region_Manager = "Unknown"
         /\ valid_txns[i].UnitPrice_INR = 84500

(***************************************************************************)
(* main(): one run of the pipeline, src/main.py                            *)
(***************************************************************************)
MainPool ==
    { Line(<<T1, Day01, P1, Widget, <<"5">>, <<"1", "0">>, C1, North>>),
      Line(<<X1, Day01, P1, Widget, <<"5">>, <<"1", "0">>, C1, North>>),
      Line(<<T1, Day01, P1, Widget, <<"5">>, <<"1", "0">>, C1>>),
      Line(<<T2, Day02, P2, <<"G", ",", "X">>, <<"1", ",", "0">>,
             <<"2", ".", "5">>, C2, South>>),
      Line(<<T2, Day10, P2, Gadget, <<"3">>, <<"1", "0">>, C2, Central>>) }

\* what the operator may type at the region prompt
RegionAnswers == {<<>>, North, South, East}

MainInit ==
    /\ pc = "read"
    /\ file_exists \in BOOLEAN
    /\ raw_lines \in (IF file_exists THEN BoundedSeq(MainPool, MaxLines) ELSE {<<>>})
    /\ all_transactions = <<>>
    /\ region = None /\ min_amount = NoneNum /\ max_amount = NoneNum
    /\ valid_txns = <<>> /\ summary = NoSummary
    /\ rates = <<>> /\ provider = <<>> /\ inr_rate = 0
    /\ n = 0 /\ result = "none" /\ orig = <<>> /\ calls = 0
    /\ report = NoReport

MainFrame == UNCHANGED <<file_exists, raw_lines, min_amount, max_amount, n, calls>>

\* lines 22-27: read_sales_data gives [] for a missing or empty file
ReadData ==
    /\ pc = "read"
    /\ pc' = IF ~file_exists \/ Len(raw_lines) = 0 THEN "exit_no_data" ELSE "parse"
    /\ UNCHANGED <<all_transactions, region, valid_txns, summary, rates,
                   provider, inr_rate, result, orig, report>>
    /\ MainFrame

\* lines 30-39: parse, then min(amounts) / max(amounts), which raise
\* ValueError on an empty list
ParseData ==
    /\ pc = "parse"
    /\ LET parsed == parse_transactions(raw_lines)
       IN  /\ all_transactions' = parsed
           /\ pc' = IF Len(parsed) = 0 THEN "critical_error" ELSE "prompt"
           /\ result' = IF Len(parsed) = 0 THEN "ValueError" ELSE result
    /\ UNCHANGED <<region, valid_txns, summary, rates, provider, inr_rate,
                   orig, report>>
    /\ MainFrame

\* lines 41-44
Prompt ==
    /\ pc = "prompt"
    /\ \/ region' = None
       \/ \E answer \in RegionAnswers : region' = Some(answer)
    /\ pc' = "validate"
    /\ UNCHANGED <<all_transactions, valid_txns, summary, rates, provider,
                   inr_rate, result, orig, report>>
    /\ MainFrame

\* lines 47-56
Validate ==
    /\ pc = "validate"
    /\ LET r == validate_and_filter(all_transactions, region, NoneNum, NoneNum)
       IN  valid_txns' = r.valid_list /\ summary' = r.summary
    /\ pc' = "fetch"
    /\ UNCHANGED <<all_transactions, region, rates, provider, inr_rate, result,
                   orig, report>>
    /\ MainFrame

\* lines 59-62
Fetch ==
    /\ pc = "fetch"
    /\ \E outcome \in ProviderOutcomes :
         /\ provider' = Append(provider, outcome)
         /\ rates' = fetch_exchange_rates(outcome)
    /\ pc' = "enrich"
    /\ UNCHANGED <<all_transactions, region, valid_txns, summary, inr_rate,
                   result, orig, report>>
    /\ MainFrame

\* lines 64-75: enrich in place (a second call of the provider) and save
Enrich ==
    /\ pc = "enrich"
    /\ \E outcome \in ProviderOutcomes :
         /\ provider' = Append(provider, outcome)
         /\ inr_rate' = InrRate(fetch_exchange_rates(outcome))
         /\ valid_txns' = enrich_transaction_data(valid_txns, outcome)
    /\ orig' = valid_txns
    /\ pc' = "report"
    /\ UNCHANGED <<all_transactions, region, summary, rates, result, report>>
    /\ MainFrame

\* lines 78-89: an exception of generate_sales_report is caught by main
Report ==
    /\ pc = "report"
    /\ LET r == generate_sales_report(valid_txns, valid_txns)
       IN  /\ report' = IF r.exc = "none"
                         THEN [written |-> TRUE, doc |-> r.val] ELSE report
           /\ pc' = IF r.exc = "none" THEN "done" ELSE "critical_error"
           /\ result' = IF r.exc = "none" THEN result ELSE r.exc
    /\ UNCHANGED <<all_transactions, region, valid_txns, summary, rates,
                   provider, inr_rate, orig>>
    /\ MainFrame

Next ==
    \/ ReadData
    \/ ParseData
    \/ Prompt
    \/ Validate
    \/ Fetch
    \/ Enrich
    \/ Report

Spec == MainInit /\ [][Next]_vars

Labels == {"read", "parse", "prompt", "validate", "fetch", "enrich", "report",
           "done", "critical_error", "exit_no_data"}

Terminated == pc \in {"done", "critical_error", "exit_no_data"}

\* main() moves to another statement.  Every action of Next is enabled exactly
\* at its own label and changes pc, so a step of Advance that changes pc is
\* possible exactly when a step of Next is, and every step of Next is one.
Advance == ~Terminated /\ pc' \in Labels \ {pc}

\* main() is a sequential program: a run that has not ended takes its next
\* step (the operator answers the prompt, each provider call ends by an
\* answer or by its 5 s timeout).  Under Spec, WF_pc(Advance) is
\* WF_vars(Next).
FairSpec == Spec /\ WF_pc(Advance)

\* C4: when a provider call fails or times out fetch_exchange_rates returns
\* the fallback table and enrichment converts at 83.0, and a run with at least
\* one valid transaction always goes on to write the complete report,
\* whatever the provider does.
C4_ProviderFailureNotFatal ==
    /\ [](pc = "enrich" /\ ProviderFails(provider[1]) => rates = FallbackRates)
    /\ []((pc \in {"report", "done"} /\ ProviderFails(provider[2])) =>
            /\ inr_rate = 8300
            /\ \A i \in 1..Len(valid_txns) :
                 /\ valid_txns[i].UnitPrice_INR = 83 * orig[i].UnitPrice
                 /\ valid_txns[i].Total_Amount_INR
                      = orig[i].Quantity * 83 * orig[i].UnitPrice)
    /\ [](pc = "done" => report.written)
    /\ ((pc = "fetch" /\ Len(valid_txns) >= 1) ~>
          (/\ pc = "done"
           /\ report.written
           /\ report.doc.records = Len(valid_txns)
           /\ report.doc.enriched_count = Len(valid_txns)))

\* both provider calls failed and the report of a run with valid
\* transactions was written at the fallback rate
C4_Witness ==
    /\ pc = "done"
    /\ provider = <<"timeout", "connection_error">>
    /\ Len(valid_txns) >= 1
    /\ inr_rate = 8300
    /\ report.written
    /\ report.doc.success_rate = 10000

\* C5: a run whose validation and filtering leave no transaction does not
\* fail in the peak-day lookup: it ends with the report written.
C5_EmptyRunCompletes ==
    (Terminated /\ summary.total_input > 0 /\ summary.final_count = 0) =>
        pc = "done" /\ report.written

====
